---- MODULE Spec2Model ----
(***************************************************************************)
(* Model of workshop.ipynb: the group-by aggregation cells                 *)
(* (dataset_country, get_stats, stats_country), rescale_to_range, the      *)
(* countries / merge / scaledCount cells and the cells that build a plot   *)
(* and hand it to the renderer.                                            *)
(*                                                                         *)
(* Numbers are exact rationals [k |-> "num", n, d] in lowest terms with    *)
(* d > 0; NaN (pandas' missing value, also the result of 0/0) and text     *)
(* cells are values of the same record shape.  Floating-point rounding is  *)
(* not modelled.                                                           *)
(***************************************************************************)
EXTENDS Integers, Sequences, FiniteSets, TLC

VARIABLES dataset, dataset_country, stats_country, err, rs_a, rs_b, rs_x, rs_out,
          countries, mapped_stats_country, scatter_plot_trace, rendered

vars == <<dataset, dataset_country, stats_country, err, rs_a, rs_b, rs_x, rs_out,
          countries, mapped_stats_country, scatter_plot_trace, rendered>>

pipeVars == <<dataset, dataset_country, stats_country, err>>

rsVars == <<rs_a, rs_b, rs_x, rs_out>>

geoVars == <<countries, mapped_stats_country, scatter_plot_trace, rendered>>

(* ---------------------------- bounds ----------------------------------- *)

MaxRows == 3

MaxLen == 3

MaxGeoRows == 2

(* ---------------------------- values ----------------------------------- *)

NaN == [k |-> "nan", n |-> 0, d |-> 0]

Text == [k |-> "str", n |-> 0, d |-> 0]

Abs(i) == IF i < 0 THEN -i ELSE i

RECURSIVE GCD(_, _)
GCD(a, b) == IF b = 0 THEN a ELSE GCD(b, a % b)

\* the rational p/q (q # 0) in lowest terms with a positive denominator
Rat(p, q) ==
    LET g == GCD(Abs(p), Abs(q))
        s == IF q < 0 THEN -1 ELSE 1
    IN  [k |-> "num", n |-> (s * p) \div g, d |-> (s * q) \div g]

Num(i) == [k |-> "num", n |-> i, d |-> 1]

IsNum(v) == v.k = "num"

IsNaN(v) == v.k = "nan"

IsText(v) == v.k = "str"

\* order of two numbers (both IsNum)
Le(u, v) == u.n * v.d <= v.n * u.d

Lt(u, v) == u.n * v.d < v.n * u.d

\* elementwise float arithmetic of a pandas Series: NaN propagates,
\* x / 0 is NaN when x = 0 (the only case the notebook's formula produces
\* for a zero denominator is 0 / 0)
Sub(u, v) == IF IsNum(u) /\ IsNum(v) THEN Rat(u.n * v.d - v.n * u.d, u.d * v.d) ELSE NaN

Add(u, v) == IF IsNum(u) /\ IsNum(v) THEN Rat(u.n * v.d + v.n * u.d, u.d * v.d) ELSE NaN

Mul(u, v) == IF IsNum(u) /\ IsNum(v) THEN Rat(u.n * v.n, u.d * v.d) ELSE NaN

Div(u, v) == IF IsNum(u) /\ IsNum(v) /\ v.n # 0 THEN Rat(u.n * v.d, u.d * v.n) ELSE NaN

(* ---------------------------- Series reductions ------------------------ *)

\* the non-missing entries of a Series, in order (skipna)
RECURSIVE Valid(_)
Valid(s) ==
    IF s = <<>> THEN <<>>
    ELSE IF IsNaN(Head(s)) THEN Valid(Tail(s)) ELSE <<Head(s)>> \o Valid(Tail(s))

RECURSIVE SumSeq(_)
SumSeq(s) == IF s = <<>> THEN Num(0) ELSE Add(Head(s), SumSeq(Tail(s)))

RECURSIVE MinSeq(_)
MinSeq(s) ==
    IF Len(s) = 1 THEN Head(s)
    ELSE LET m == MinSeq(Tail(s)) IN IF Le(Head(s), m) THEN Head(s) ELSE m

RECURSIVE MaxSeq(_)
MaxSeq(s) ==
    IF Len(s) = 1 THEN Head(s)
    ELSE LET m == MaxSeq(Tail(s)) IN IF Le(m, Head(s)) THEN Head(s) ELSE m

\* a min() that returns the first non-missing entry instead of the smallest
SeriesMin_first(s) == IF Valid(s) = <<>> THEN NaN ELSE Head(Valid(s))

\* Series.min(): smallest non-missing entry, NaN when there is none
SeriesMin(s) == IF Valid(s) = <<>> THEN NaN ELSE MinSeq(Valid(s))

\* Series.max(): largest non-missing entry, NaN when there is none
SeriesMax(s) == IF Valid(s) = <<>> THEN NaN ELSE MaxSeq(Valid(s))

\* Series.count(): number of non-missing entries
SeriesCount(s) == Len(Valid(s))

\* a mean() that divides by the number of entries, missing ones included
SeriesMean_overAllRows(s) ==
    IF Valid(s) = <<>> THEN NaN ELSE Div(SumSeq(Valid(s)), Num(Len(s)))

\* a mean() that yields 0 when there is no non-missing entry
SeriesMean_zeroWhenEmpty(s) ==
    IF Valid(s) = <<>> THEN Num(0) ELSE Div(SumSeq(Valid(s)), Num(Len(Valid(s))))

\* Series.mean(): sum of the non-missing entries over their number, NaN when
\* there is none
SeriesMean(s) ==
    IF Valid(s) = <<>> THEN NaN ELSE Div(SumSeq(Valid(s)), Num(Len(Valid(s))))

\* Series.mean() of a text column raises TypeError as soon as a text entry
\* has to be summed
MeanRaises(s) == \E i \in 1..Len(s) : IsText(s[i])

(* ---------------------------- tables ----------------------------------- *)

Keys == {"X", "Y"}

\* a missing Country cell
NoKey == "NaN"

KeyRank == [c \in Keys |-> IF c = "X" THEN 1 ELSE 2]

Vals == {10, 12, 14}

KeyCells == Keys \cup {NoKey}

NumCells == {Num(v) : v \in Vals} \cup {NaN}

TextCells == {Text, NaN}

SeqUpTo(S, n) == UNION {[1..m -> S] : m \in 0..n}

\* the tables read_csv can hand to the notebook: the expected one, one whose
\* Overall column is text, and ones lacking a column
Tables ==
    {[columns |-> {"Country", "Overall"}, rows |-> r] :
        r \in SeqUpTo({[Country |-> c, Overall |-> v] : c \in KeyCells, v \in NumCells}, MaxRows)}
    \cup
    {[columns |-> {"Country", "Overall"}, rows |-> r] :
        r \in SeqUpTo({[Country |-> c, Overall |-> v] : c \in KeyCells, v \in TextCells}, MaxRows)}
    \cup
    {[columns |-> {"Country"}, rows |-> r] :
        r \in SeqUpTo({[Country |-> c] : c \in KeyCells}, MaxRows)}
    \cup
    {[columns |-> {"Overall"}, rows |-> r] :
        r \in SeqUpTo({[Overall |-> v] : v \in NumCells}, MaxRows)}

\* table[col]: the column as a sequence aligned by row position
Column(table, col) == [i \in 1..Len(table.rows) |-> table.rows[i][col]]

None == [defined |-> FALSE]

(* ---------------------------- groupby ---------------------------------- *)

\* ascending sequence of the row positions in S
RECURSIVE SortedIdx(_)
SortedIdx(S) ==
    IF S = {} THEN <<>>
    ELSE LET m == CHOOSE i \in S : \A j \in S : i <= j
         IN  <<m>> \o SortedIdx(S \ {m})

\* ascending sequence of the keys in K
RECURSIVE SortedKeys(_)
SortedKeys(K) ==
    IF K = {} THEN <<>>
    ELSE LET m == CHOOSE c \in K : \A e \in K : KeyRank[c] <= KeyRank[e]
         IN  <<m>> \o SortedKeys(K \ {m})

\* the distinct non-missing keys of `by` in the order of their first row
RECURSIVE FirstSeenKeys(_)
FirstSeenKeys(by) ==
    IF by = <<>> THEN <<>>
    ELSE LET init == FirstSeenKeys(SubSeq(by, 1, Len(by) - 1))
             last == by[Len(by)]
         IN  IF last = NoKey \/ \E j \in 1..Len(init) : init[j] = last
             THEN init ELSE Append(init, last)

\* a groupby that keeps the keys in the order of their first row (sort=False)
GroupBy_unsorted(obj, by) ==
    LET ks == {by[i] : i \in 1..Len(by)} \ {NoKey}
    IN  [defined |-> TRUE,
         obj     |-> obj,
         keys    |-> FirstSeenKeys(by),
         groups  |-> [c \in ks |-> SortedIdx({i \in 1..Len(by) : by[i] = c})]]

\* a groupby that puts the rows with a missing key into every group
GroupBy_missingKeyInEveryGroup(obj, by) ==
    LET ks == {by[i] : i \in 1..Len(by)} \ {NoKey}
    IN  [defined |-> TRUE,
         obj     |-> obj,
         keys    |-> SortedKeys(ks),
         groups  |-> [c \in ks |->
                        SortedIdx({i \in 1..Len(by) : by[i] = c \/ by[i] = NoKey})]]

\* Series.groupby(by): one group per distinct non-missing key of `by`, the
\* group holding the positions of the rows with that key; rows whose key is
\* missing are left out
GroupBy(obj, by) ==
    LET ks == {by[i] : i \in 1..Len(by)} \ {NoKey}
    IN  [defined |-> TRUE,
         obj     |-> obj,
         keys    |-> SortedKeys(ks),
         groups  |-> [c \in ks |-> SortedIdx({i \in 1..Len(by) : by[i] = c})]]

\* the values of one group, in row order
GroupValues(g, c) == [j \in 1..Len(g.groups[c]) |-> g.obj[g.groups[c][j]]]

(* ---------------------------- get_stats -------------------------------- *)

get_stats(group) ==
    [min   |-> SeriesMin(group),
     max   |-> SeriesMax(group),
     count |-> SeriesCount(group),
     mean  |-> SeriesMean(group)]

\* SeriesGroupBy.apply(get_stats).unstack(): one row per group, in key order,
\* indexed by the key
ApplyUnstack(g) ==
    [j \in 1..Len(g.keys) |->
        LET st == get_stats(GroupValues(g, g.keys[j]))
        IN  [Country |-> g.keys[j], min |-> st.min, max |-> st.max,
             count |-> st.count, mean |-> st.mean]]

(* ---------------------------- cells ------------------------------------ *)

\* dataset_country = dataset['Overall'].groupby(dataset['Country'])
CellGroupBy ==
    /\ IF {"Overall", "Country"} \subseteq dataset.columns
       THEN /\ dataset_country' = GroupBy(Column(dataset, "Overall"), Column(dataset, "Country"))
            /\ err' = "ok"
       ELSE /\ dataset_country' = dataset_country
            /\ err' = "KeyError"
    /\ UNCHANGED <<dataset, stats_country>>
    /\ UNCHANGED rsVars
    /\ UNCHANGED geoVars

\* the outcomes of apply(get_stats).unstack() on a grouped Series
ApplyOutcomes(g) ==
    IF \E c \in DOMAIN g.groups : MeanRaises(GroupValues(g, c))
    THEN {[err |-> "TypeError"]}
    ELSE IF g.keys = <<>>
    THEN {[err |-> "ValueError"], [err |-> "ok"]}
    ELSE {[err |-> "ok"]}

\* stats_country = dataset_country.apply(get_stats).unstack()
CellApply ==
    /\ dataset_country.defined
    /\ \E o \in ApplyOutcomes(dataset_country) :
        /\ err' = o.err
        /\ stats_country' = IF o.err = "ok"
                            THEN [defined |-> TRUE, rows |-> ApplyUnstack(dataset_country)]
                            ELSE stats_country
    /\ UNCHANGED <<dataset, dataset_country>>
    /\ UNCHANGED rsVars
    /\ UNCHANGED geoVars

(* ---------------------------- rescale_to_range ------------------------- *)

\* a rescale that forgets the final "+ a"
rescale_to_range_noOffset(a, b, x) ==
    [i \in 1..Len(x) |->
        Div(Mul(Sub(Num(b), Num(a)), Sub(x[i], SeriesMin(x))),
            Sub(SeriesMax(x), SeriesMin(x)))]

\* a rescale that measures each value from the maximum instead of the minimum
rescale_to_range_fromMax(a, b, x) ==
    [i \in 1..Len(x) |->
        Add(Div(Mul(Sub(Num(b), Num(a)), Sub(SeriesMax(x), x[i])),
                Sub(SeriesMax(x), SeriesMin(x))),
            Num(a))]

\* a rescale that divides by the maximum instead of the observed range
rescale_to_range_overMax(a, b, x) ==
    [i \in 1..Len(x) |->
        Add(Div(Mul(Sub(Num(b), Num(a)), Sub(x[i], SeriesMin(x))), SeriesMax(x)),
            Num(a))]

\* ((b - a) * (x - x.min())) / (x.max() - x.min()) + a, elementwise
rescale_to_range(a, b, x) ==
    [i \in 1..Len(x) |->
        Add(Div(Mul(Sub(Num(b), Num(a)), Sub(x[i], SeriesMin(x))),
                Sub(SeriesMax(x), SeriesMin(x))),
            Num(a))]

RVals == {5, 7, 10, 15}

Targets == {0, 5, 10, 15, 50, 100}

\* a call rescale_to_range(a=rs_a, b=rs_b, x=rs_x); the function has no
\* raise statement and pandas' division raises nothing, so it always returns
CallRescale ==
    /\ rs_out' = [defined |-> TRUE, values |-> rescale_to_range(rs_a, rs_b, rs_x)]
    /\ UNCHANGED <<rs_a, rs_b, rs_x>>
    /\ UNCHANGED pipeVars
    /\ UNCHANGED geoVars

(* ---------------------------- notebook --------------------------------- *)

Init ==
    /\ dataset \in Tables
    /\ dataset_country = None
    /\ stats_country = None
    /\ err = "ok"
    /\ rs_a = 0 /\ rs_b = 0 /\ rs_x = <<>> /\ rs_out = None
    /\ countries = None /\ mapped_stats_country = None
    /\ scatter_plot_trace = None /\ rendered = None

Next ==
    \/ CellGroupBy
    \/ CellApply

Spec == Init /\ [][Next]_vars

\* rescale_to_range as a function of its arguments
InitRescale ==
    /\ dataset = [columns |-> {"Country", "Overall"}, rows |-> <<>>]
    /\ dataset_country = None
    /\ stats_country = None
    /\ err = "ok"
    /\ rs_a \in Targets
    /\ rs_b \in Targets
    /\ rs_x \in SeqUpTo({Num(v) : v \in RVals}, MaxLen)
    /\ rs_out = None
    /\ countries = None /\ mapped_stats_country = None
    /\ scatter_plot_trace = None /\ rendered = None

NextRescale == CallRescale

SpecRescale == InitRescale /\ [][NextRescale]_vars

(* ---------------------------- countries, merge, scaledCount ------------ *)

\* the (longitude, latitude) pairs of the rows
Locs == {<<1, 3>>, <<2, 4>>}

\* the Overall cells of the tables the whole notebook is run on
GeoCells == {Num(10), NaN}

\* the tables with the four columns the later cells read, and the tables
\* that lack the longitude and latitude columns
GeoTables ==
    {[columns |-> {"Country", "Overall", "longitude", "latitude"}, rows |-> r] :
        r \in SeqUpTo({[Country |-> c, Overall |-> v,
                        longitude |-> Num(l[1]), latitude |-> Num(l[2])] :
                            c \in KeyCells, v \in GeoCells, l \in Locs}, MaxGeoRows)}
    \cup
    {[columns |-> {"Country", "Overall"}, rows |-> r] :
        r \in SeqUpTo({[Country |-> c, Overall |-> v] :
                            c \in KeyCells, v \in GeoCells}, MaxGeoRows)}

\* the columns of the unstacked summary: the statistics come from the inner
\* level of the stacked index, so a summary without rows has none
StatsColumns(st) == IF st.rows = <<>> THEN {} ELSE {"min", "max", "count", "mean"}

\* a drop_duplicates that keeps the last row of each Country (keep='last')
DropDuplicates_keepLast(rows) ==
    LET keep == {i \in 1..Len(rows) :
                    \A j \in (i + 1)..Len(rows) : rows[j].Country # rows[i].Country}
        idx  == SortedIdx(keep)
    IN  [j \in 1..Len(idx) |-> rows[idx[j]]]

\* drop_duplicates(['Country']): the first row of each Country, in row
\* order; missing Countries are equal to each other
DropDuplicates(rows) ==
    LET keep == {i \in 1..Len(rows) :
                    \A j \in 1..(i - 1) : rows[j].Country # rows[i].Country}
        idx  == SortedIdx(keep)
    IN  [j \in 1..Len(idx) |-> rows[idx[j]]]

\* a countries cell that drops the duplicates of dataset in place
CellCountries_inPlace ==
    /\ {"Country", "longitude", "latitude"} \subseteq dataset.columns
    /\ dataset' = [dataset EXCEPT !.rows = DropDuplicates(dataset.rows)]
    /\ countries' = [defined |-> TRUE,
                     rows |-> [j \in 1..Len(dataset'.rows) |->
                                 [Country   |-> dataset'.rows[j].Country,
                                  longitude |-> dataset'.rows[j].longitude,
                                  latitude  |-> dataset'.rows[j].latitude]]]
    /\ err' = "ok"
    /\ UNCHANGED <<dataset_country, stats_country>>
    /\ UNCHANGED <<mapped_stats_country, scatter_plot_trace, rendered>>
    /\ UNCHANGED rsVars

\* countries = dataset.drop_duplicates(['Country'])
\*                [['Country','longitude','latitude']].set_index('Country')
CellCountries ==
    /\ IF {"Country", "longitude", "latitude"} \subseteq dataset.columns
       THEN /\ countries' =
                  LET d == DropDuplicates(dataset.rows)
                  IN  [defined |-> TRUE,
                       rows |-> [j \in 1..Len(d) |->
                                   [Country   |-> d[j].Country,
                                    longitude |-> d[j].longitude,
                                    latitude  |-> d[j].latitude]]]
            /\ err' = "ok"
       ELSE /\ countries' = countries
            /\ err' = "KeyError"
    /\ UNCHANGED <<dataset, dataset_country, stats_country>>
    /\ UNCHANGED <<mapped_stats_country, scatter_plot_trace, rendered>>
    /\ UNCHANGED rsVars

\* pd.merge(left, right, left_index=True, right_index=True): the inner join
\* on the index, in the order of the left table; right's index is unique
Merge(left, right) ==
    LET hit == {j \in 1..Len(left.rows) :
                   \E k \in 1..Len(right.rows) : right.rows[k].Country = left.rows[j].Country}
        idx == SortedIdx(hit)
    IN  [defined |-> TRUE,
         columns |-> StatsColumns(left) \cup {"longitude", "latitude"},
         rows    |-> [m \in 1..Len(idx) |->
                        LET l == left.rows[idx[m]]
                            r == right.rows[CHOOSE k \in 1..Len(right.rows) :
                                               right.rows[k].Country = l.Country]
                        IN  [Country |-> l.Country, min |-> l.min, max |-> l.max,
                             count |-> l.count, mean |-> l.mean,
                             longitude |-> r.longitude, latitude |-> r.latitude]]]

\* mapped_stats_country = pd.merge(stats_country, countries, ...)
CellMerge ==
    /\ stats_country.defined
    /\ countries.defined
    /\ mapped_stats_country' = Merge(stats_country, countries)
    /\ err' = "ok"
    /\ UNCHANGED <<dataset, dataset_country, stats_country>>
    /\ UNCHANGED <<countries, scatter_plot_trace, rendered>>
    /\ UNCHANGED rsVars

\* table[column] = values: the column is added, or replaced when it exists
SetScaledCount(table, values) ==
    [defined |-> TRUE,
     columns |-> table.columns \cup {"scaledCount"},
     rows    |-> [j \in 1..Len(table.rows) |->
                    LET r == table.rows[j]
                    IN  [Country |-> r.Country, min |-> r.min, max |-> r.max,
                         count |-> r.count, mean |-> r.mean,
                         longitude |-> r.longitude, latitude |-> r.latitude,
                         scaledCount |-> values[j]]]]

\* the count column as a Series of numbers
CountColumn(table) == [j \in 1..Len(table.rows) |-> Num(table.rows[j].count)]

\* a rescale cell that adds the rescaled counts to the scaledCount column
\* already there (+=)
CellRescale_accumulate ==
    /\ mapped_stats_country.defined
    /\ "count" \in mapped_stats_country.columns
    /\ mapped_stats_country' =
          LET new == rescale_to_range(10, 50, CountColumn(mapped_stats_country))
          IN  SetScaledCount(mapped_stats_country,
                 [j \in 1..Len(new) |->
                     IF "scaledCount" \in mapped_stats_country.columns
                     THEN Add(mapped_stats_country.rows[j].scaledCount, new[j])
                     ELSE new[j]])
    /\ err' = "ok"
    /\ UNCHANGED <<dataset, dataset_country, stats_country>>
    /\ UNCHANGED <<countries, scatter_plot_trace, rendered>>
    /\ UNCHANGED rsVars

\* mapped_stats_country['scaledCount'] =
\*     rescale_to_range(a=10, b=50, x=mapped_stats_country['count'])
CellRescale ==
    /\ mapped_stats_country.defined
    /\ IF "count" \in mapped_stats_country.columns
       THEN /\ mapped_stats_country' =
                  SetScaledCount(mapped_stats_country,
                                 rescale_to_range(10, 50, CountColumn(mapped_stats_country)))
            /\ err' = "ok"
       ELSE /\ mapped_stats_country' = mapped_stats_country
            /\ err' = "KeyError"
    /\ UNCHANGED <<dataset, dataset_country, stats_country>>
    /\ UNCHANGED <<countries, scatter_plot_trace, rendered>>
    /\ UNCHANGED rsVars

(* ---------------------------- plots ------------------------------------ *)

\* the column names feature_1 and feature_2 can be set to; no modelled table
\* has a column "Sweet"
Features == {"Sweet", "Overall"}

\* go.Scatter(x = dataset[f1], y = dataset[f2], mode = "markers",
\*            marker = dict(size = 4))
ScatterTrace(f1, f2) ==
    /\ IF {f1, f2} \subseteq dataset.columns
       THEN /\ scatter_plot_trace' =
                  [defined |-> TRUE, type |-> "scatter", mode |-> "markers",
                   x |-> Column(dataset, f1), y |-> Column(dataset, f2), size |-> 4]
            /\ err' = "ok"
       ELSE /\ scatter_plot_trace' = scatter_plot_trace
            /\ err' = "KeyError"
    /\ UNCHANGED <<dataset, dataset_country, stats_country>>
    /\ UNCHANGED <<countries, mapped_stats_country, rendered>>
    /\ UNCHANGED rsVars

\* cell: scatter_plot_trace = go.Scatter(...), for the current feature_1 and
\* feature_2
CellScatterTrace == \E f1, f2 \in Features : ScatterTrace(f1, f2)

\* cell: traces = [scatter_plot_trace]; fig = go.Figure(data = traces);
\* py.offline.iplot(fig)
CellPlotScatter ==
    /\ scatter_plot_trace.defined
    /\ rendered' = [defined |-> TRUE, data |-> <<scatter_plot_trace>>, title |-> ""]
    /\ err' = "ok"
    /\ UNCHANGED <<dataset, dataset_country, stats_country>>
    /\ UNCHANGED <<countries, mapped_stats_country, scatter_plot_trace>>
    /\ UNCHANGED rsVars

\* cell: stats_country_trace = go.Scatter(x = stats_country["mean"],
\* y = stats_country["count"], ..., text = stats_country.index.tolist());
\* fig = go.Figure(data = traces, layout = layout); py.offline.iplot(fig)
CellPlotStats ==
    /\ stats_country.defined
    /\ IF {"mean", "count"} \subseteq StatsColumns(stats_country)
       THEN /\ rendered' =
                  [defined |-> TRUE,
                   data |-> <<[defined |-> TRUE, type |-> "scatter", mode |-> "markers",
                               x |-> [j \in 1..Len(stats_country.rows) |-> stats_country.rows[j].mean],
                               y |-> [j \in 1..Len(stats_country.rows) |-> stats_country.rows[j].count],
                               size |-> 16,
                               color |-> [j \in 1..Len(stats_country.rows) |-> stats_country.rows[j].count],
                               text |-> [j \in 1..Len(stats_country.rows) |->
                                            [country |-> stats_country.rows[j].Country]]]>>,
                   title |-> "Beer Countries"]
            /\ err' = "ok"
       ELSE /\ rendered' = rendered
            /\ err' = "KeyError"
    /\ UNCHANGED <<dataset, dataset_country, stats_country>>
    /\ UNCHANGED <<countries, mapped_stats_country, scatter_plot_trace>>
    /\ UNCHANGED rsVars

\* the Scattergeo trace of the merged table
GeoTrace(t) ==
    [defined |-> TRUE, type |-> "scattergeo", mode |-> "markers",
     lon |-> [j \in 1..Len(t.rows) |-> t.rows[j].longitude],
     lat |-> [j \in 1..Len(t.rows) |-> t.rows[j].latitude],
     text |-> [j \in 1..Len(t.rows) |->
                 [country |-> t.rows[j].Country, count |-> t.rows[j].count,
                  mean |-> t.rows[j].mean]],
     size |-> [j \in 1..Len(t.rows) |-> t.rows[j].scaledCount],
     color |-> [j \in 1..Len(t.rows) |-> t.rows[j].mean]]

\* a geo cell that falls back to a fixed marker size and still renders when
\* a column is missing
CellPlotGeo_renderAnyway ==
    /\ mapped_stats_country.defined
    /\ rendered' =
          IF {"longitude", "latitude", "count", "mean", "scaledCount"}
                \subseteq mapped_stats_country.columns
          THEN [defined |-> TRUE, data |-> <<GeoTrace(mapped_stats_country)>>,
                title |-> "World Distribution of Beers"]
          ELSE [defined |-> TRUE, data |-> <<>>, title |-> "World Distribution of Beers"]
    /\ err' = "ok"
    /\ UNCHANGED <<dataset, dataset_country, stats_country>>
    /\ UNCHANGED <<countries, mapped_stats_country, scatter_plot_trace>>
    /\ UNCHANGED rsVars

\* cell: mapped_stats_country_trace = go.Scattergeo(lon =
\* mapped_stats_country['longitude'], ..., marker = dict(size =
\* mapped_stats_country['scaledCount'], ...)); fig = go.Figure(...);
\* py.offline.iplot(fig)
CellPlotGeo ==
    /\ mapped_stats_country.defined
    /\ IF {"longitude", "latitude", "count", "mean", "scaledCount"}
             \subseteq mapped_stats_country.columns
       THEN /\ rendered' = [defined |-> TRUE, data |-> <<GeoTrace(mapped_stats_country)>>,
                            title |-> "World Distribution of Beers"]
            /\ err' = "ok"
       ELSE /\ rendered' = rendered
            /\ err' = "KeyError"
    /\ UNCHANGED <<dataset, dataset_country, stats_country>>
    /\ UNCHANGED <<countries, mapped_stats_country, scatter_plot_trace>>
    /\ UNCHANGED rsVars

(* ---------------------------- whole notebook --------------------------- *)

InitNotebook ==
    /\ dataset \in GeoTables
    /\ dataset_country = None
    /\ stats_country = None
    /\ err = "ok"
    /\ rs_a = 0 /\ rs_b = 0 /\ rs_x = <<>> /\ rs_out = None
    /\ countries = None /\ mapped_stats_country = None
    /\ scatter_plot_trace = None /\ rendered = None

\* the cells can be executed, and executed again, in any order
NextNotebook ==
    \/ CellGroupBy
    \/ CellApply
    \/ CellCountries
    \/ CellMerge
    \/ CellRescale
    \/ CellScatterTrace
    \/ CellPlotScatter
    \/ CellPlotStats
    \/ CellPlotGeo

SpecNotebook == InitNotebook /\ [][NextNotebook]_vars

(* ---------------------------- properties ------------------------------- *)

\* row position i is listed in the group of key c
InGroup(g, c, i) == \E j \in 1..Len(g.groups[c]) : g.groups[c][j] = i

\* the keys whose group lists row position i
GroupsOf(g, i) == {c \in DOMAIN g.groups : InGroup(g, c, i)}

\* the row positions of the loaded table whose Country is c
RowsWithKey(c) == {i \in 1..Len(dataset.rows) : dataset.rows[i].Country = c}

\* C1 as stated: every row of the table, a row with a missing Country
\* included, lies in exactly one group.
C1_EveryRowInOneGroup ==
    dataset_country.defined =>
        \A i \in 1..Len(dataset.rows) : Cardinality(GroupsOf(dataset_country, i)) = 1

\* C1 (amended): the groups partition the rows whose Country is not missing:
\* such a row lies in exactly one group, the group of its own Country, no
\* group lists a row twice, and a row whose Country is missing lies in no
\* group.
C1_GroupsPartitionKeyedRows ==
    dataset_country.defined =>
        /\ \A i \in 1..Len(dataset.rows) :
              Cardinality(GroupsOf(dataset_country, i)) =
                  IF dataset.rows[i].Country = NoKey THEN 0 ELSE 1
        /\ \A c \in DOMAIN dataset_country.groups :
              LET grp == dataset_country.groups[c]
              IN  /\ \A j \in 1..Len(grp) : grp[j] \in RowsWithKey(c)
                  /\ \A j, l \in 1..Len(grp) : grp[j] = grp[l] => j = l
                  /\ Len(grp) = Cardinality(RowsWithKey(c))

C1_Witness ==
    /\ dataset_country.defined
    /\ Cardinality(DOMAIN dataset_country.groups) = 2
    /\ \E i \in 1..Len(dataset.rows) : dataset.rows[i].Country = NoKey

\* the row positions with Country c and a non-missing Overall
ValidRows(c) == {i \in RowsWithKey(c) : IsNum(dataset.rows[i].Overall)}

RECURSIVE SumOverall(_)
SumOverall(S) ==
    IF S = {} THEN 0
    ELSE LET i == CHOOSE e \in S : TRUE
         IN  dataset.rows[i].Overall.n + SumOverall(S \ {i})

\* C2: the summary has exactly one row per distinct Country of the table, and
\* for a group with non-missing Overall values its min is the least of them,
\* its max the greatest and its mean their sum over their number; Overall =
\* [10, 12, 14] under "X" gives {X, min 10, max 14, count 3, mean 12}.
C2_OneRowPerKeyWithStats ==
    stats_country.defined =>
        LET rows == stats_country.rows
        IN  /\ \A c \in Keys :
                  Cardinality({j \in 1..Len(rows) : rows[j].Country = c}) =
                      IF RowsWithKey(c) # {} THEN 1 ELSE 0
            /\ \A j \in 1..Len(rows) : rows[j].Country \in Keys
            /\ \A j \in 1..Len(rows) :
                  LET V == ValidRows(rows[j].Country)
                  IN  V # {} =>
                        /\ \E i \in V : rows[j].min = dataset.rows[i].Overall
                        /\ \A i \in V : Le(rows[j].min, dataset.rows[i].Overall)
                        /\ \E i \in V : rows[j].max = dataset.rows[i].Overall
                        /\ \A i \in V : Le(dataset.rows[i].Overall, rows[j].max)
                        /\ IsNum(rows[j].mean)
                        /\ rows[j].mean.d > 0
                        /\ rows[j].mean.n * Cardinality(V) = rows[j].mean.d * SumOverall(V)
            /\ dataset.rows = <<[Country |-> "X", Overall |-> Num(10)],
                                [Country |-> "X", Overall |-> Num(12)],
                                [Country |-> "X", Overall |-> Num(14)]>>
               => rows = <<[Country |-> "X", min |-> Num(10), max |-> Num(14),
                            count |-> 3, mean |-> Num(12)]>>

C2_Witness ==
    /\ stats_country.defined
    /\ dataset.rows = <<[Country |-> "X", Overall |-> Num(10)],
                        [Country |-> "X", Overall |-> Num(12)],
                        [Country |-> "X", Overall |-> Num(14)]>>

\* C3 as stated: the count of a summary row is the number of rows of its
\* group, rows with a missing Overall included.
C3_CountIsGroupSize ==
    stats_country.defined =>
        \A j \in 1..Len(stats_country.rows) :
            stats_country.rows[j].count =
                Cardinality(RowsWithKey(stats_country.rows[j].Country))

EmptyValued(g) ==
    {c \in DOMAIN g.groups : \A j \in 1..Len(g.groups[c]) : IsNaN(g.obj[g.groups[c][j]])}

\* C5: applying get_stats to a grouped numeric column that has a group
\* without any non-missing value raises nothing and yields a summary that
\* still has a row for that group, whose mean is NaN.
C5_EmptyGroupKeptWithNaNMean ==
    [][(/\ CellApply
        /\ \A i \in 1..Len(dataset_country.obj) : ~IsText(dataset_country.obj[i])
        /\ EmptyValued(dataset_country) # {})
       => /\ err' = "ok"
          /\ stats_country'.defined
          /\ \A c \in EmptyValued(dataset_country) :
                \E j \in 1..Len(stats_country'.rows) :
                    /\ stats_country'.rows[j].Country = c
                    /\ IsNaN(stats_country'.rows[j].mean)]_vars

C5_Witness ==
    /\ stats_country.defined
    /\ err = "ok"
    /\ Len(stats_country.rows) = 2
    /\ IsNaN(stats_country.rows[1].mean)
    /\ IsNum(stats_country.rows[2].mean)
    /\ RowsWithKey(stats_country.rows[1].Country) # {}

\* C6 as stated: a group of exactly one row has min = max = mean and
\* count = 1.
C6_SingleRowGroup ==
    stats_country.defined =>
        \A j \in 1..Len(stats_country.rows) :
            LET r == stats_country.rows[j]
            IN  Cardinality(RowsWithKey(r.Country)) = 1 =>
                    /\ r.min = r.max
                    /\ r.max = r.mean
                    /\ r.count = 1

\* x holds at least two distinct values
TwoDistinct(x) == \E i, j \in 1..Len(x) : x[i] # x[j]

\* x[i] is a least / a greatest entry of x
IsLeast(x, i) == \A j \in 1..Len(x) : Le(x[i], x[j])

IsGreatest(x, i) == \A j \in 1..Len(x) : Le(x[j], x[i])

C9_ConstantInputReturnsNothing ==
    (Len(rs_x) > 0 /\ ~TwoDistinct(rs_x)) => ~rs_out.defined

\* C10 as stated: the aggregation raises the missing-column error (KeyError)
\* when Country or Overall is not a column of the table, and the type error
\* (TypeError) when the Overall column is text.
C10_PreconditionErrors ==
    [][/\ (CellGroupBy /\ ~({"Overall", "Country"} \subseteq dataset.columns))
            => (err' = "KeyError" /\ ~dataset_country'.defined)
       /\ (CellApply /\ \E i \in 1..Len(dataset_country.obj) : IsText(dataset_country.obj[i]))
            => (err' = "TypeError" /\ ~stats_country'.defined)]_vars

\* the permutations of 1..n
Perms(n) == {p \in [1..n -> 1..n] : \A i, j \in 1..n : p[i] = p[j] => i = j}

\* the summary of the table whose rows are rows[p[1]], rows[p[2]], ...
SummaryOfPermuted(p) ==
    LET t == [columns |-> dataset.columns,
              rows    |-> [i \in 1..Len(dataset.rows) |-> dataset.rows[p[i]]]]
    IN  ApplyUnstack(GroupBy(Column(t, "Overall"), Column(t, "Country")))

C11_DatasetImmutable == [][dataset' = dataset]_vars

C11_Witness ==
    /\ Len(dataset.rows) = 2
    /\ dataset.rows[1].Country = dataset.rows[2].Country
    /\ countries.defined
    /\ mapped_stats_country.defined
    /\ "scaledCount" \in mapped_stats_country.columns
    /\ scatter_plot_trace.defined
    /\ rendered.defined
    /\ rendered.title = "World Distribution of Beers"

\* C13: a plot cell whose channel refers to a column that its source table
\* lacks raises the missing-column error (KeyError), builds no trace and
\* hands nothing to the renderer; when all the referenced columns exist the
\* trace is built (and, in the cells that plot, handed to the renderer).
C13_BuilderChecksColumnsOnly ==
    [][/\ \A f1, f2 \in Features :
            ScatterTrace(f1, f2) =>
                IF {f1, f2} \subseteq dataset.columns
                THEN /\ err' = "ok"
                     /\ scatter_plot_trace'.defined
                     /\ scatter_plot_trace'.x = Column(dataset, f1)
                     /\ scatter_plot_trace'.y = Column(dataset, f2)
                ELSE /\ err' = "KeyError"
                     /\ scatter_plot_trace' = scatter_plot_trace
                     /\ rendered' = rendered
       /\ CellPlotStats =>
                IF {"mean", "count"} \subseteq StatsColumns(stats_country)
                THEN /\ err' = "ok"
                     /\ rendered'.defined
                     /\ rendered'.title = "Beer Countries"
                     /\ Len(rendered'.data[1].x) = Len(stats_country.rows)
                ELSE /\ err' = "KeyError"
                     /\ rendered' = rendered
       /\ CellPlotGeo =>
                IF {"longitude", "latitude", "count", "mean", "scaledCount"}
                      \subseteq mapped_stats_country.columns
                THEN /\ err' = "ok"
                     /\ rendered'.defined
                     /\ rendered'.title = "World Distribution of Beers"
                     /\ Len(rendered'.data[1].size) = Len(mapped_stats_country.rows)
                ELSE /\ err' = "KeyError"
                     /\ rendered' = rendered]_vars

C13_Witness ==
    /\ err = "KeyError"
    /\ mapped_stats_country.defined
    /\ "scaledCount" \notin mapped_stats_country.columns
    /\ Len(mapped_stats_country.rows) > 0
    /\ rendered.defined
    /\ rendered.title = "Beer Countries"
    /\ scatter_plot_trace.defined

\* the first row position of the loaded table whose Country is c
FirstRowOf(c) == CHOOSE i \in RowsWithKey(c) : \A j \in RowsWithKey(c) : i <= j

\* C15: the merged table has exactly one row for each group key of
\* stats_country and no other row (none for a missing Country), and each
\* row carries the longitude and latitude of the first row of the loaded
\* table that has its Country.
C15_MergedRowsAndCoordinates ==
    (mapped_stats_country.defined /\ stats_country.defined) =>
        LET m == mapped_stats_country.rows
            st == stats_country.rows
        IN  /\ \A j \in 1..Len(st) :
                  Cardinality({k \in 1..Len(m) : m[k].Country = st[j].Country}) = 1
            /\ \A k \in 1..Len(m) :
                  /\ m[k].Country # NoKey
                  /\ \E j \in 1..Len(st) : st[j].Country = m[k].Country
                  /\ m[k].longitude = dataset.rows[FirstRowOf(m[k].Country)].longitude
                  /\ m[k].latitude = dataset.rows[FirstRowOf(m[k].Country)].latitude

C15_Witness ==
    /\ mapped_stats_country.defined
    /\ Len(mapped_stats_country.rows) = 1
    /\ Len(countries.rows) = 2
    /\ \E k \in 1..Len(countries.rows) : countries.rows[k].Country = NoKey

\* the columns of a merged row other than scaledCount
OtherColumns(r) ==
    <<r.Country, r.min, r.max, r.count, r.mean, r.longitude, r.latitude>>

\* C16: an execution of the rescale cell leaves the rows and their min, max,
\* count, mean, longitude and latitude as they are, and an execution on a
\* table that already has scaledCount (any execution after the first since
\* the merge) leaves scaledCount, hence the whole table, as it is.
C16_RescaleCellIdempotent ==
    [][CellRescale =>
          /\ Len(mapped_stats_country'.rows) = Len(mapped_stats_country.rows)
          /\ \A j \in 1..Len(mapped_stats_country.rows) :
                OtherColumns(mapped_stats_country'.rows[j])
                    = OtherColumns(mapped_stats_country.rows[j])
          /\ "scaledCount" \in mapped_stats_country.columns
                => mapped_stats_country' = mapped_stats_country]_vars

C16_Witness ==
    /\ mapped_stats_country.defined
    /\ "scaledCount" \in mapped_stats_country.columns
    /\ Len(mapped_stats_country.rows) = 2
    /\ mapped_stats_country.rows[1].scaledCount = Num(50)
    /\ mapped_stats_country.rows[2].scaledCount = Num(10)

====
